---------------------------- MODULE Spec2Model ----------------------------
(***************************************************************************)
(* A model of the document extraction pipeline of duden-cli:               *)
(*   - layout/html.py: normalize_text, the stripping rules, clean_text,    *)
(*     dl_split;                                                           *)
(*   - layout/rechtschreibung.py: _extract_dl, Meaning.from_soup /         *)
(*     from_single / from_many, rechtschreibung;                           *)
(*   - definition.py: WordType.parse_tag, Definition.parse_tag, definition.*)
(*                                                                         *)
(* Strings are sequences of characters.  A document node is a record       *)
(*   [name, ref, cls, id, aria, kids, s]                                   *)
(* where name = "#text" marks a text leaf (NavigableString) whose string   *)
(* is s, and any other name an element (bs4.Tag) with children kids,       *)
(* data-duden-ref-type attribute ref, class attribute cls, id attribute    *)
(* id ("" when the attribute is missing) and aria-label attribute aria     *)
(* (<<>> when missing).                                                    *)
(***************************************************************************)
EXTENDS Integers, Sequences, FiniteSets, TLC

\* Nesting depth of wrappers put around the basic nodes of the input set.
MaxDepth == 1
\* Longest list of stripping rules given to clean_text.
MaxRules == 2
\* Most list items of a multi-meaning container.
MaxItems == 3

\* Bound on the length of the headword texts handed to normalize_text.
MaxText == 3

---------------------------------------------------------------------------
(* Characters and strings                                                  *)

NBSP == "U+00A0"
NNBSP == "U+202F"
SHY == "U+00AD"
CombUml == "U+0308"

Digits == {"0", "1", "2", "3", "4", "5", "6", "7", "8", "9"}
Lower == {"a", "b", "c", "d", "e", "f", "g", "h", "i", "j", "k", "l", "m",
          "n", "o", "p", "q", "r", "s", "t", "u", "v", "w", "x", "y", "z"}

\* str.split() and str.strip() treat every Unicode space as whitespace.
IsSpace(c) == c \in {" ", "\n", NBSP, NNBSP}

RECURSIVE Concat(_)
Concat(ss) == IF ss = <<>> THEN <<>> ELSE Head(ss) \o Concat(Tail(ss))

\* unicodedata.normalize("NFC", text): a base letter followed by the
\* combining diaeresis is composed into one character.
RECURSIVE NFC(_)
NFC(s) ==
  IF Len(s) < 2 THEN s
  ELSE IF s[2] = CombUml /\ s[1] \in {"a", "u"}
       THEN <<IF s[1] = "a" THEN "ä" ELSE "ü">> \o NFC(Tail(Tail(s)))
       ELSE <<s[1]>> \o NFC(Tail(s))

RECURSIVE ReplaceChars(_)
ReplaceChars(s) ==
  IF s = <<>> THEN <<>>
  ELSE (IF Head(s) \in {NBSP, NNBSP} THEN <<" ">>
        ELSE IF Head(s) = SHY THEN <<>>
        ELSE <<Head(s)>>) \o ReplaceChars(Tail(s))

\* normalize_text without the canonical composition.
normalize_text_uncomposed(text) == ReplaceChars(text)

normalize_text(text) == ReplaceChars(NFC(text))

\* str.split(): the maximal runs of non-whitespace characters, in order.
RECURSIVE SplitFrom(_, _)
SplitFrom(s, cur) ==
  IF s = <<>> THEN (IF cur = <<>> THEN <<>> ELSE <<cur>>)
  ELSE IF IsSpace(Head(s))
       THEN (IF cur = <<>> THEN <<>> ELSE <<cur>>) \o SplitFrom(Tail(s), <<>>)
       ELSE SplitFrom(Tail(s), Append(cur, Head(s)))

Split(s) == SplitFrom(s, <<>>)

\* Length of the longest prefix of s[from..] whose characters are in cls.
RECURSIVE RunLen(_, _, _)
RunLen(s, from, cls) ==
  IF from <= Len(s) /\ s[from] \in cls THEN 1 + RunLen(s, from + 1, cls) ELSE 0

\* re.compile(r"\([0-9]+[a-z]*\)").match(tok): anchored at the start only.
LexemePatternMatch(tok) ==
  /\ Len(tok) >= 1
  /\ tok[1] = "("
  /\ LET d == RunLen(tok, 2, Digits)
         l == RunLen(tok, 2 + d, Lower)
     IN /\ d >= 1
        /\ 2 + d + l <= Len(tok)
        /\ tok[2 + d + l] = ")"

\* The pattern handed to delete_a_pattern: r"V" (text starting with V).
LinkPatternMatch(text) == Len(text) >= 1 /\ text[1] = "V"

---------------------------------------------------------------------------
(* Document nodes                                                          *)

\* A node with every field given.
Node(name, ref, cls, id, aria, kids, s) ==
  [name |-> name, ref |-> ref, cls |-> cls, id |-> id, aria |-> aria,
   kids |-> kids, s |-> s]

Text(s) == Node("#text", "", "", "", <<>>, <<>>, s)
El(name, ref, cls, id, kids) == Node(name, ref, cls, id, <<>>, kids, <<>>)

\* None, where the code holds a node or None.
NoneNode == Node("#none", "", "", "", <<>>, <<>>, <<>>)
IsNone(e) == e.name = "#none"

IsTag(e) == e.name \notin {"#text", "#none"}

\* str(e): a text leaf is its string; an element is its markup.
RECURSIVE Str(_)
RECURSIVE JoinStr(_)
Str(e) ==
  IF ~IsTag(e) THEN e.s
  ELSE <<"<" \o e.name>>
       \o (IF e.ref # "" THEN <<" ", "data-duden-ref-type=" \o e.ref>> ELSE <<>>)
       \o (IF e.cls # "" THEN <<" ", "class=" \o e.cls>> ELSE <<>>)
       \o (IF e.id # "" THEN <<" ", "id=" \o e.id>> ELSE <<>>)
       \o <<">">>
       \o JoinStr(e.kids)
       \o <<"</" \o e.name \o ">">>

\* "".join(str(e) for e in elements)
JoinStr(elements) ==
  IF elements = <<>> THEN <<>>
  ELSE Str(Head(elements)) \o JoinStr(Tail(elements))

---------------------------------------------------------------------------
(* Stripping rules: PageElement -> (consumed, list | None), or an          *)
(* exception (raised).                                                     *)

Out(consumed, out) ==
  [consumed |-> consumed, none |-> FALSE, out |-> out, raised |-> FALSE]
OutNone == [consumed |-> TRUE, none |-> TRUE, out |-> <<>>, raised |-> FALSE]
OutRaise == [consumed |-> FALSE, none |-> FALSE, out |-> <<>>, raised |-> TRUE]

\* strip_span returning the children of the span twice.
strip_span_duplicating(element) ==
  IF IsTag(element) /\ element.name = "span"
  THEN Out(TRUE, element.kids \o element.kids)
  ELSE Out(FALSE, <<element>>)

\* strip_span reporting consumed for every node, not only for a span.
strip_span_always_consumed(element) ==
  IF IsTag(element) /\ element.name = "span"
  THEN Out(TRUE, element.kids)
  ELSE Out(TRUE, <<element>>)

strip_span(element) ==
  IF IsTag(element) /\ element.name = "span"
  THEN Out(TRUE, element.kids)
  ELSE Out(FALSE, <<element>>)

\* strip_italic looking for the tag em instead of i.
strip_italic_em(element) ==
  IF IsTag(element) /\ element.name = "em"
  THEN Out(TRUE, element.kids)
  ELSE Out(FALSE, <<element>>)

strip_italic(element) ==
  IF IsTag(element) /\ element.name = "i"
  THEN Out(TRUE, element.kids)
  ELSE Out(FALSE, <<element>>)

delete_any_a(element) ==
  IF IsTag(element) /\ element.name = "a"
  THEN OutNone
  ELSE Out(FALSE, <<element>>)

delete_a_pattern(element) ==
  IF IsTag(element) /\ element.name = "a"
  THEN IF LinkPatternMatch(normalize_text(JoinStr(element.kids)))
       THEN OutNone
       ELSE Out(FALSE, <<element>>)
  ELSE Out(FALSE, <<element>>)

delete_a_rule(element) ==
  IF IsTag(element)
  THEN IF element.ref = "rule" THEN OutNone ELSE Out(FALSE, <<element>>)
  ELSE Out(FALSE, <<element>>)

delete_a_icon(element) ==
  IF IsTag(element)
  THEN IF element.cls = "tuple__icon" THEN OutNone ELSE Out(FALSE, <<element>>)
  ELSE Out(FALSE, <<element>>)

strip_a_lexeme(element) ==
  IF ~IsTag(element) THEN Out(FALSE, <<element>>)
  ELSE IF element.ref # "lexeme" THEN Out(FALSE, <<element>>)
  ELSE LET lexeme_strs == Split(normalize_text(JoinStr(element.kids)))
       IN IF lexeme_strs = <<>>
          THEN OutRaise   \* lexeme_strs[-1]: IndexError
          ELSE IF LexemePatternMatch(lexeme_strs[Len(lexeme_strs)])
               THEN Out(TRUE, <<Text(Concat(SubSeq(lexeme_strs, 1,
                                                  Len(lexeme_strs) - 1)))>>)
               ELSE Out(TRUE, element.kids)

RuleNames == {"strip_span", "strip_italic", "delete_any_a", "delete_a_pattern",
              "delete_a_rule", "delete_a_icon", "strip_a_lexeme"}

\* Calling the preprocessor named r on element e.
ApplyRule(r, e) ==
  CASE r = "strip_span" -> strip_span(e)
    [] r = "strip_italic" -> strip_italic(e)
    [] r = "delete_any_a" -> delete_any_a(e)
    [] r = "delete_a_pattern" -> delete_a_pattern(e)
    [] r = "delete_a_rule" -> delete_a_rule(e)
    [] r = "delete_a_icon" -> delete_a_icon(e)
    [] r = "strip_a_lexeme" -> strip_a_lexeme(e)


---------------------------------------------------------------------------
(* clean_text as a function                                                *)

\* The outcome of a call: a value, or an exception.
Ok(v) == [raised |-> FALSE, val |-> v]
Raised == [raised |-> TRUE, val |-> <<>>]

\* Sequencing of calls: an exception of the first call leaves the function,
\* otherwise the rest F runs on its value.
Bind(x, F(_)) == IF x.raised THEN Raised ELSE F(x.val)

\* h + t and [h] + t of two outcomes.
Cat(h, t) == IF h.raised \/ t.raised THEN Raised ELSE Ok(h.val \o t.val)
Cons(h, t) == IF h.raised \/ t.raised THEN Raised ELSE Ok(<<h.val>> \o t.val)

\* preprocessors: None, or a list of rules.
NoRules == [given |-> FALSE, rules |-> <<>>]
Rules(rs) == [given |-> TRUE, rules |-> rs]

\* [processor(e) for e in simple_element]
ApplyAll(r, seq) == [i \in 1..Len(seq) |-> ApplyRule(r, seq[i])]

\* sum((e[1] for e in processed_elements if e[1] is not None), [])
RECURSIVE Collected(_)
Collected(pes) ==
  IF pes = <<>> THEN <<>> ELSE Head(pes).out \o Collected(Tail(pes))

\* any(...) that never reports a consumed node: a single pass.
AnyConsumed_never(pes) == FALSE

AnyConsumed(pes) == \E i \in 1..Len(pes) : pes[i].consumed
AnyRaised(pes) == \E i \in 1..Len(pes) : pes[i].raised

\* The for loop of one pass, from rule k on.
RECURSIVE ForLoop(_, _, _, _)
RECURSIVE ForBody(_, _, _, _, _)
ForLoop(rules, k, seq, proc) ==
  IF k > Len(rules)
  THEN [raised |-> FALSE, seq |-> seq, processed |-> proc]
  ELSE ForBody(ApplyAll(rules[k], seq), rules, k, seq, proc)

ForBody(pes, rules, k, seq, proc) ==
  IF AnyRaised(pes)
  THEN [raised |-> TRUE, seq |-> seq, processed |-> proc]
  ELSE ForLoop(rules, k + 1, Collected(pes), proc \/ AnyConsumed(pes))

\* The while loop: passes until one consumes nothing.
RECURSIVE WhileLoop(_, _)
RECURSIVE WhileBody(_, _)
WhileLoop(rules, seq) == WhileBody(ForLoop(rules, 1, seq, FALSE), rules)

WhileBody(r, rules) ==
  IF r.raised THEN Raised
  ELSE IF r.processed THEN WhileLoop(rules, r.seq)
  ELSE Ok(JoinStr(r.seq))

clean_text(e, pre) ==
  IF ~pre.given THEN Ok(Str(e)) ELSE WhileLoop(pre.rules, <<e>>)

\* "".join(clean_text(e, preprocessors=pre) for e in nodes)
RECURSIVE CleanJoin(_, _)
CleanJoin(nodes, pre) ==
  IF nodes = <<>> THEN Ok(<<>>)
  ELSE Cat(clean_text(Head(nodes), pre), CleanJoin(Tail(nodes), pre))

---------------------------------------------------------------------------
(* Searching the tree (bs4 find / find_all) and the definition lists       *)

\* The descendants of e in document order.
RECURSIVE Descendants(_)
RECURSIVE DescendantsOfAll(_)
Descendants(e) == DescendantsOfAll(e.kids)

\* The nodes es with their descendants, in document order.
DescendantsOfAll(es) ==
  IF es = <<>> THEN <<>>
  ELSE <<Head(es)>> \o Descendants(Head(es)) \o DescendantsOfAll(Tail(es))

First(seq) == IF seq = <<>> THEN NoneNode ELSE seq[1]

find_all(e, nm) == SelectSeq(Descendants(e), LAMBDA x : x.name = nm)
find(e, nm) == First(find_all(e, nm))
find_by_id(e, nm, i) ==
  First(SelectSeq(Descendants(e), LAMBDA x : x.name = nm /\ x.id = i))
find_by_class(e, nm, c) ==
  First(SelectSeq(Descendants(e), LAMBDA x : x.name = nm /\ x.cls = c))

\* e.text: the text leaves of e, concatenated.
RECURSIVE GetText(_)
RECURSIVE GetTextAll(_)
GetText(e) == IF ~IsTag(e) THEN e.s ELSE GetTextAll(e.kids)

GetTextAll(es) ==
  IF es = <<>> THEN <<>> ELSE GetText(Head(es)) \o GetTextAll(Tail(es))

IsNewline(e) == e.name = "#text" /\ e.s = <<"\n">>

clean_page_elements(tag) ==
  LET c1 == IF Len(tag.kids) > 0 /\ IsNewline(tag.kids[1])
            THEN Tail(tag.kids) ELSE tag.kids
  IN IF Len(c1) > 0 /\ IsNewline(c1[Len(c1)])
     THEN SubSeq(c1, 1, Len(c1) - 1) ELSE c1

DlRules == Rules(<<"strip_span", "strip_italic", "strip_a_lexeme",
                   "delete_a_rule", "delete_a_icon">>)

dl_split(dl) ==
  IF IsNone(find(dl, "dt")) THEN Raised   \* iterating None: TypeError
  ELSE Bind(CleanJoin(find(dl, "dt").kids, DlRules),
            LAMBDA t : Ok([label |-> t, value |-> find(dl, "dd")]))

\* list(map(f, xs)) for an f that may raise.
RECURSIVE MapDlSplit(_)
MapDlSplit(dls) ==
  IF dls = <<>> THEN Ok(<<>>)
  ELSE Cons(dl_split(Head(dls)), MapDlSplit(Tail(dls)))

extract_dl(soup) ==
  IF IsNone(soup) THEN Raised   \* None.find_all: AttributeError
  ELSE MapDlSplit(find_all(soup, "dl"))

StartsWith(s, prefix) ==
  Len(s) >= Len(prefix) /\ SubSeq(s, 1, Len(prefix)) = prefix

\* ([e[1] for e in fields if e[0].startswith(prefix)] or [None])[0]
FieldValue(fields, prefix) ==
  LET hits == SelectSeq(fields, LAMBDA f : StartsWith(f.label, prefix))
  IN IF hits = <<>> THEN NoneNode ELSE hits[1].value

---------------------------------------------------------------------------
(* layout/rechtschreibung.py: the field decoders and the meaning parser    *)

\* Optional values: T | None.
Some(v) == [has |-> TRUE, v |-> v]
NoneStr == [has |-> FALSE, v |-> <<>>]
NoneList == [has |-> FALSE, v |-> <<>>]
NoneInt == [has |-> FALSE, v |-> 0]

\* str.split(sep)
RECURSIVE SplitOnFrom(_, _, _)
SplitOnFrom(s, sep, cur) ==
  IF s = <<>> THEN <<cur>>
  ELSE IF Head(s) = sep THEN <<cur>> \o SplitOnFrom(Tail(s), sep, <<>>)
  ELSE SplitOnFrom(Tail(s), sep, Append(cur, Head(s)))

SplitOn(s, sep) == SplitOnFrom(s, sep, <<>>)

\* str.strip()
RECURSIVE LStrip(_)
LStrip(s) == IF s # <<>> /\ IsSpace(Head(s)) THEN LStrip(Tail(s)) ELSE s
RECURSIVE RStrip(_)
RStrip(s) ==
  IF s # <<>> /\ IsSpace(s[Len(s)]) THEN RStrip(SubSeq(s, 1, Len(s) - 1)) ELSE s
\* strip() that trims the left end only.
Strip_left_only(s) == LStrip(s)

Strip(s) == RStrip(LStrip(s))

LblWortart == <<"Wortart">>
LblHaeufigkeit == <<"Häufigkeit">>
LblWorttrennung == <<"Worttrennung">>
LblBeispiel == <<"Beispiel">>
LblAussprache == <<"Aussprache">>

Freq100 == <<"Gehört zu den 100 häufigsten Wörtern im Dudenkorpus">>
Freq1000 == <<"Gehört zu den 1000 häufigsten Wörtern im Dudenkorpus mit Ausnahme der Top 100">>
Freq10000 == <<"Gehört zu den 10000 häufigsten Wörtern im Dudenkorpus mit Ausnahme der Top 1000">>
Freq100000 == <<"Gehört zu den 100000 häufigsten Wörtern im Dudenkorpus mit Ausnahme der Top 10000">>
FreqRare == <<"Gehört nicht zu den 100000 häufigsten Wörtern im Dudenkorpus">>

InformationCard_new(word) ==
  [word |-> word, word_type |-> NoneStr, frequency |-> NoneInt,
   pronunciation |-> NoneStr]

wordtype_from_tag(card, tag) ==
  IF IsNone(tag) THEN Ok(card)
  ELSE Ok([card EXCEPT !.word_type = Some(JoinStr(tag.kids))])

frequency_from_tag(card, tag) ==
  IF IsNone(tag) THEN Ok(card)
  ELSE LET cpe == clean_page_elements(tag)
       IN IF cpe = <<>> THEN Raised              \* [0]: IndexError
          ELSE IF ~IsTag(cpe[1]) THEN Raised     \* .attrs of a string
          ELSE IF cpe[1].aria = <<>> THEN Raised \* ["aria-label"]: KeyError
          ELSE LET frequency_str == cpe[1].aria
                   frequency_int ==
                     IF frequency_str = Freq100 THEN Some(5)
                     ELSE IF frequency_str = Freq1000 THEN Some(4)
                     ELSE IF frequency_str = Freq10000 THEN Some(3)
                     ELSE IF frequency_str = Freq100000 THEN Some(2)
                     ELSE IF frequency_str = FreqRare THEN Some(1)
                     ELSE NoneInt
               IN Ok([card EXCEPT !.frequency = frequency_int])

\* InformationCard.from_soup, given the fields wfp = _extract_dl(article)
InformationCard_from_soup(article, wfp) ==
  LET lemma == find_by_class(article, "div", "lemma")
      h1 == IF IsNone(lemma) THEN NoneNode ELSE find(lemma, "h1")
      main == IF IsNone(h1) THEN NoneNode
              ELSE find_by_class(h1, "span", "lemma__main")
  IN IF IsNone(main) \/ wfp.raised THEN Raised
     ELSE LET c1 == wordtype_from_tag(
                      InformationCard_new(normalize_text(GetText(main))),
                      FieldValue(wfp.val, LblWortart))
          IN frequency_from_tag(c1.val, FieldValue(wfp.val, LblHaeufigkeit))

ExampleRules == Rules(<<"strip_span", "strip_italic", "delete_a_rule",
                        "strip_a_lexeme">>)

hyphenation_from_tag(r, tag) ==
  IF IsNone(tag) THEN Ok(r)
  ELSE IF tag.kids = <<>> THEN Raised   \* contents[0]: IndexError
  ELSE Ok([r EXCEPT !.hyphenation = Some(Str(tag.kids[1]))])

Rechtschreibung_examples_from_tag(r, tag) ==
  IF IsNone(tag) THEN Ok(r)
  ELSE Bind(CleanJoin(tag.kids, ExampleRules),
            LAMBDA t :
              Ok([r EXCEPT !.examples =
                    Some([i \in 1..Len(SplitOn(t, ";")) |->
                            Strip(SplitOn(t, ";")[i])])]))

Rechtschreibung_from_soup(article) ==
  Bind(extract_dl(find_by_id(article, "div", "rechtschreibung")),
       LAMBDA hyphenation_examples :
         Bind(hyphenation_from_tag(
                [hyphenation |-> NoneStr, examples |-> NoneList],
                FieldValue(hyphenation_examples, LblWorttrennung)),
              LAMBDA r :
                Rechtschreibung_examples_from_tag(
                  r, FieldValue(hyphenation_examples, LblBeispiel))))

\* "".join(normalize_text(clean_text(e, preprocessors)) for e in nodes)
RECURSIVE CleanNormJoin(_, _)
CleanNormJoin(nodes, pre) ==
  IF nodes = <<>> THEN Ok(<<>>)
  ELSE Cat(Bind(clean_text(Head(nodes), pre),
                LAMBDA t : Ok(normalize_text(t))),
           CleanNormJoin(Tail(nodes), pre))

RECURSIVE ExamplesOfItems(_)
ExamplesOfItems(lis) ==
  IF lis = <<>> THEN Ok(<<>>)
  ELSE Cons(CleanNormJoin(Head(lis).kids, ExampleRules),
            ExamplesOfItems(Tail(lis)))

Meaning_examples_from_tag(m, tag) ==
  IF IsNone(tag) THEN Ok(m)
  ELSE IF IsNone(find(tag, "ul")) THEN Raised  \* None.find_all
  ELSE Bind(ExamplesOfItems(find_all(find(tag, "ul"), "li")),
            LAMBDA examples : Ok([m EXCEPT !.examples = Some(examples)]))

\* list[Meaning] | None
NoMeanings == [none |-> TRUE, list |-> <<>>]
Meanings(l) == [none |-> FALSE, list |-> l]

\* tag.find("p") or tag.find("div")
MeaningTag(tag) ==
  IF IsNone(find(tag, "p")) THEN find(tag, "div") ELSE find(tag, "p")

from_single(tag) ==
  IF IsNone(MeaningTag(tag)) THEN Ok(NoMeanings)
  ELSE Bind(CleanJoin(MeaningTag(tag).kids, ExampleRules),
         LAMBDA t :
           Bind(extract_dl(tag),
             LAMBDA dls :
               Bind(Meaning_examples_from_tag(
                      [meaning |-> normalize_text(t),
                       examples |-> NoneList, grammar |-> NoneStr,
                       uses |-> NoneList],
                      FieldValue(dls, LblBeispiel)),
                    LAMBDA m : Ok(Meanings(<<m>>)))))

\* re.compile(r"Bedeutung*") searched in the id: any id containing
\* "Bedeutun".  Ids are atoms; these are the ones of the model that match.
MeaningIds == {"Bedeutung-1", "Bedeutung-2", "Bedeutung-3", "Bedeutung-4",
               "Bedeutun"}
IdMatches(i) == i \in MeaningIds

\* [(from_single(e) or [None])[0] for e in li_items], the None entries
\* filtered out
RECURSIVE MeaningsOfItems(_)
MeaningsOfItems(lis) ==
  IF lis = <<>> THEN Ok(<<>>)
  ELSE Cat(Bind(from_single(Head(lis)),
                LAMBDA m : Ok(IF m.none THEN <<>> ELSE <<m.list[1]>>)),
           MeaningsOfItems(Tail(lis)))

from_many(tag) ==
  IF IsNone(find(tag, "ol")) THEN Raised   \* None.find_all: AttributeError
  ELSE Bind(MeaningsOfItems(
              SelectSeq(Descendants(find(tag, "ol")),
                        LAMBDA x : x.name = "li" /\ IdMatches(x.id))),
            LAMBDA ms : Ok(IF ms = <<>> THEN NoMeanings ELSE Meanings(ms)))

---------------------------------------------------------------------------
(* definition.py: WordType, Grammar, Pronunciation, Definition             *)

\* [e for e in element.contents if e != "\n"]
clean_contents(e) == SelectSeq(e.kids, LAMBDA x : ~IsNewline(x))

\* "word" in str(node): the atom occurs in the node's string.
Contains(s, atom) == \E i \in 1..Len(s) : s[i] = atom

\* The label table of WordType.parse_tag, in the order of the cases.
WordTypeTable ==
  << [label |-> <<"Substantiv", ",", " ", "maskulin">>, type |-> "NOUN_MASCULINE"],
     [label |-> <<"Substantiv", ",", " ", "feminin">>, type |-> "NOUN_FEMININE"],
     [label |-> <<"Substantiv", ",", " ", "Neutrum">>, type |-> "NOUN_NEUTRAL"],
     [label |-> <<"Substantiv", ",", " ", "maskulin", ",", " ", "oder", " ",
                  "Substantiv", ",", " ", "Neutrum">>,
      type |-> "NOUN_MASCULINE_NEUTRAL"],
     [label |-> <<"Adjektiv">>, type |-> "ADJECTIVE"],
     [label |-> <<"Adverb">>, type |-> "ADVERB"],
     [label |-> <<"schwaches", " ", "Verb">>, type |-> "WEAK_VERB"],
     [label |-> <<"starkes", " ", "Verb">>, type |-> "STRONG_VERB"],
     [label |-> <<"unregelmäßiges", " ", "Verb">>, type |-> "IRREGULAR_VERB"],
     [label |-> <<"Partikel">>, type |-> "PARTICLE"],
     [label |-> <<"Interjektion">>, type |-> "INTERJECTION"] >>

\* The enumeration WordType.
WordTypes ==
  {"NOUN_MASCULINE", "NOUN_FEMININE", "NOUN_NEUTRAL", "NOUN_MASCULINE_NEUTRAL",
   "ADJECTIVE", "ADVERB", "WEAK_VERB", "STRONG_VERB", "IRREGULAR_VERB",
   "ARTICLE", "PROPER_NOUN", "INTERJECTION", "CONJUNCTION", "PARTICLE",
   "PREFIX", "PREPOSITION", "PRONOUN", "SUFFIX", "NUMERAL"}

\* match contents: a table whose unknown labels decode to ADJECTIVE.
MatchWordType_default(contents) ==
  LET hits == SelectSeq(WordTypeTable,
                        LAMBDA c : ~IsTag(contents) /\ contents.s = c.label)
  IN IF hits = <<>> THEN Ok("ADJECTIVE") ELSE Ok(hits[1].type)

\* match contents: the first case whose literal equals the string; a Tag
\* equals no literal.
MatchWordType(contents) ==
  LET hits == SelectSeq(WordTypeTable,
                        LAMBDA c : ~IsTag(contents) /\ contents.s = c.label)
  IN IF hits = <<>> THEN Raised   \* NotImplementedError
     ELSE Ok(hits[1].type)

\* [tag for tag in article.find_all("dl")
\*      if word in str(tag.find("dt").contents[0])]
RECURSIVE DlsLabelled(_, _)
DlsLabelled(dls, word) ==
  IF dls = <<>> THEN Ok(<<>>)
  ELSE LET dt == find(Head(dls), "dt")
           t == DlsLabelled(Tail(dls), word)
       IN IF IsNone(dt) \/ t.raised THEN Raised
          ELSE IF dt.kids = <<>> THEN Raised
          ELSE Ok((IF Contains(Str(dt.kids[1]), word)
                   THEN <<Head(dls)>> ELSE <<>>) \o t.val)

\* [e for e in tags[0].find("dd").contents if e != "\n"][-1]
LastOfDd(dl) ==
  LET dd == find(dl, "dd")
  IN IF IsNone(dd) THEN Raised
     ELSE IF clean_contents(dd) = <<>> THEN Raised
     ELSE Ok(clean_contents(dd)[Len(clean_contents(dd))])

NoWordType == [has |-> FALSE, v |-> ""]

\* WordType.parse_tag: Ok(Some(type)), Ok(None) or an exception.
WordType_parse_tag(article) ==
  LET word_type_tags == DlsLabelled(find_all(article, "dl"), "Wortart")
  IN IF word_type_tags.raised THEN Raised
     ELSE IF word_type_tags.val = <<>> THEN Ok(NoWordType)
     ELSE LET contents == LastOfDd(word_type_tags.val[1])
          IN IF contents.raised THEN Raised
             ELSE LET output == MatchWordType(contents.val)
                  IN IF output.raised THEN Raised ELSE Ok(Some(output.val))

NoGrammar == [has |-> FALSE, v |-> [word_type |-> "", grammar |-> NoneList]]

Grammar_parse_tag(article) ==
  LET word_type == WordType_parse_tag(article)
  IN IF word_type.raised THEN Raised
     ELSE IF ~word_type.val.has THEN Ok(NoGrammar)
     ELSE LET g == find_by_id(article, "div", "grammatik")
              ps == IF IsNone(g) THEN <<>> ELSE find_all(g, "p")
          IN Ok(Some([word_type |-> word_type.val.v,
                      grammar |-> IF ps = <<>> THEN NoneList
                                  ELSE Some(ps[1].kids)]))

\* markdownify of the markup of the nodes: text as it is, span unwrapped,
\* i as *...*, b as **...**, a as its text (the model's links carry no
\* href), every other element unwrapped.
RECURSIVE Markdown(_)
Markdown(nodes) ==
  IF nodes = <<>> THEN <<>>
  ELSE LET e == Head(nodes)
           inner == Markdown(e.kids)
       IN (IF ~IsTag(e) THEN e.s
           ELSE IF e.name = "i" THEN <<"*">> \o inner \o <<"*">>
           ELSE IF e.name = "b" THEN <<"**">> \o inner \o <<"**">>
           ELSE inner) \o Markdown(Tail(nodes))

\* normal_markdown of the joined markup of the nodes; NFC and the
\* replacement of the non-breaking space act on the text leaves.
RECURSIVE ReplaceNbsp(_)
ReplaceNbsp(s) ==
  IF s = <<>> THEN <<>>
  ELSE <<IF Head(s) = NBSP THEN " " ELSE Head(s)>> \o ReplaceNbsp(Tail(s))

normal_markdown(nodes) == ReplaceNbsp(NFC(Markdown(nodes)))

NoPronunciation == [has |-> FALSE, v |-> [stress |-> <<>>, ipa |-> <<>>]]

\* The loop over the spans: the ipa and guide strings, or an exception.
RECURSIVE SpanLoop(_)
SpanLoop(spans) ==
  IF spans = <<>> THEN Ok([ipas |-> <<>>, guides |-> <<>>])
  ELSE LET sp == Head(spans)
           t == SpanLoop(Tail(spans))
       IN IF t.raised \/ sp.cls = "" THEN Raised     \* s["class"]: KeyError
          ELSE IF sp.cls = "ipa"
          THEN IF clean_contents(sp) = <<>> \/ IsTag(clean_contents(sp)[1])
               THEN Raised   \* [0]: IndexError; normalize(Tag): TypeError
               ELSE Ok([t.val EXCEPT
                          !.ipas = <<NFC(clean_contents(sp)[1].s)>> \o @])
          ELSE IF sp.cls = "pronunciation-guide__text"
          THEN Ok([t.val EXCEPT
                     !.guides = <<normal_markdown(clean_contents(sp))>> \o @])
          ELSE t

Pronunciation_parse_tag(article) ==
  LET pronunciation_tags == DlsLabelled(find_all(article, "dl"), "Aussprache")
  IN IF pronunciation_tags.raised THEN Raised
     ELSE IF pronunciation_tags.val = <<>> THEN Ok(NoPronunciation)
     ELSE LET contents == LastOfDd(pronunciation_tags.val[1])
          IN IF contents.raised THEN Raised
             ELSE IF ~IsTag(contents.val) THEN Raised  \* str has no find_all
             ELSE LET r == SpanLoop(find_all(contents.val, "span"))
                  IN IF r.raised THEN Raised
                     ELSE Ok(Some(
                       [stress |-> IF r.val.guides = <<>> THEN <<>>
                                   ELSE r.val.guides[1],
                        ipa |-> IF r.val.ipas = <<>> THEN <<>>
                                ELSE r.val.ipas[1]]))

\* "Beispiel" in e.find("dt").contents[0]: a substring test on a string,
\* a membership test in the children on a Tag.
BeispielIn(x) ==
  IF IsTag(x) THEN \E i \in 1..Len(x.kids) :
                     ~IsTag(x.kids[i]) /\ x.kids[i].s = LblBeispiel
  ELSE Contains(x.s, "Beispiel")

\* The list comprehension of _get_examples: for every dl labelled
\* "Beispiel", the li items under the first child of its dd.
RECURSIVE ExampleLists(_)
ExampleLists(dls) ==
  IF dls = <<>> THEN Ok(<<>>)
  ELSE LET dt == find(Head(dls), "dt")
           dd == find(Head(dls), "dd")
           t == ExampleLists(Tail(dls))
       IN IF t.raised \/ IsNone(dt) THEN Raised
          ELSE IF dt.kids = <<>> THEN Raised
          ELSE IF ~BeispielIn(dt.kids[1]) THEN t
          ELSE IF IsNone(dd) THEN Raised
          ELSE IF clean_contents(dd) = <<>> THEN Raised
          ELSE IF ~IsTag(clean_contents(dd)[1]) THEN Raised
          ELSE Ok(<<find_all(clean_contents(dd)[1], "li")>> \o t.val)

Definition_get_examples(container) ==
  LET examples == ExampleLists(find_all(container, "dl"))
  IN IF examples.raised THEN Raised
     ELSE IF examples.val = <<>> THEN Ok(NoneList)
     ELSE LET lis == examples.val[1]
              strs == [i \in 1..Len(lis) |->
                         normal_markdown(clean_contents(lis[i]))]
          IN Ok(IF strs = <<>> THEN NoneList ELSE Some(strs))

\* Definition | None
NoDefinition == [none |-> TRUE, definitions |-> <<>>]
Definition(defs) == [none |-> FALSE, definitions |-> defs]

Definition_single_def(single_def) ==
  LET p == find(single_def, "p")
      ex == Definition_get_examples(single_def)
  IN IF IsNone(p) \/ ex.raised THEN Raised
     ELSE IF p.kids = <<>> THEN Raised
     ELSE Ok(Definition(<<[meaning |-> Str(p.kids[1]), examples |-> ex.val]>>))

\* "".join(clean_tag(def_element) for def_element in e)
RECURSIVE JoinCleanTag(_)
JoinCleanTag(nodes) ==
  IF nodes = <<>> THEN Ok(<<>>)
  ELSE LET e == Head(nodes)
           t == JoinCleanTag(Tail(nodes))
       IN IF t.raised THEN Raised
          ELSE IF ~IsTag(e) THEN Ok(e.s \o t.val)
          ELSE IF e.kids = <<>> THEN Raised       \* contents[0]: IndexError
          ELSE IF IsTag(e.kids[1]) THEN Raised    \* join of a Tag: TypeError
          ELSE Ok(e.kids[1].s \o t.val)

RECURSIVE MultiDefs(_)
MultiDefs(lis) ==
  IF lis = <<>> THEN Ok(<<>>)
  ELSE LET d == find_by_class(Head(lis), "div", "enumeration__text")
           ex == Definition_get_examples(Head(lis))
           t == MultiDefs(Tail(lis))
       IN IF IsNone(d) \/ ex.raised \/ t.raised THEN Raised
          ELSE LET dfn == JoinCleanTag(clean_contents(d))
               IN IF dfn.raised THEN Raised
                  ELSE Ok(<<[meaning |-> dfn.val, examples |-> ex.val]>>
                          \o t.val)

Definition_multi_def(multi_def) ==
  LET definitions == SelectSeq(Descendants(multi_def),
                       LAMBDA x : x.name = "li" /\ IdMatches(x.id))
      ds == MultiDefs(definitions)
  IN IF ds.raised THEN Raised ELSE Ok(Definition(ds.val))

\* The headword of definition(): the first span of the lemma div, its
\* children joined without soft hyphens.
RECURSIVE DropShy(_)
DropShy(s) ==
  IF s = <<>> THEN <<>>
  ELSE (IF Head(s) = SHY THEN <<>> ELSE <<Head(s)>>) \o DropShy(Tail(s))

RECURSIVE JoinWord(_)
JoinWord(nodes) ==
  IF nodes = <<>> THEN Ok(<<>>)
  ELSE LET t == JoinWord(Tail(nodes))
       IN IF t.raised \/ IsTag(Head(nodes)) THEN Raised
          ELSE Ok(NFC(DropShy(Head(nodes).s)) \o t.val)

Headword(soup) ==
  LET lemma == find_by_class(soup, "div", "lemma")
  IN IF IsNone(lemma) THEN Raised
     ELSE IF find_all(lemma, "span") = <<>> THEN Raised
     ELSE JoinWord(find_all(lemma, "span")[1].kids)

---------------------------------------------------------------------------
(* Inputs of clean_text                                                    *)

TxtVerb == <<"V">>
TxtVerb2a == <<"V", " ", "(", "2", "a", ")">>
TxtStarkesVerb2 == <<"s", " ", "V", " ", "(", "2", ")">>
TxtNbsp == <<"V", NBSP, "(", "2", ")">>
TxtBlank == <<" ">>

TextPool == {TxtVerb, TxtVerb2a, TxtStarkesVerb2, TxtNbsp, TxtBlank}

\* The element kinds the rules tell apart: tag name, data-duden-ref-type
\* and class.
Kinds ==
  { [name |-> "span", ref |-> "", cls |-> ""],
    [name |-> "i", ref |-> "", cls |-> ""],
    [name |-> "a", ref |-> "", cls |-> ""],
    [name |-> "a", ref |-> "rule", cls |-> ""],
    [name |-> "a", ref |-> "lexeme", cls |-> ""],
    [name |-> "span", ref |-> "rule", cls |-> ""],
    [name |-> "span", ref |-> "", cls |-> "tuple__icon"],
    [name |-> "b", ref |-> "", cls |-> ""] }

Wrappers == {"span", "i"}

BaseNodes ==
  {Text(t) : t \in TextPool}
  \cup {El(k.name, k.ref, k.cls, "", <<>>) : k \in Kinds}
  \cup {El(k.name, k.ref, k.cls, "", <<Text(t)>>) : k \in Kinds, t \in TextPool}

\* The basic nodes wrapped up to d times in a style or italic wrapper,
\* alone or after a sibling text leaf.
RECURSIVE Nodes(_)
Nodes(d) ==
  IF d = 0 THEN BaseNodes
  ELSE LET P == Nodes(d - 1)
       IN P \cup {El(w, "", "", "", <<c>>) : w \in Wrappers, c \in P}
            \cup {El(w, "", "", "", <<Text(TxtVerb), c>>) : w \in Wrappers, c \in P}

InputNodes == Nodes(MaxDepth)

RuleLists == UNION {[1..n -> RuleNames] : n \in 0..MaxRules}

---------------------------------------------------------------------------
(* Inputs of the lookups: the article of a fetched page                    *)

E(nm, kids) == El(nm, "", "", "", kids)
WithClass(nm, c, kids) == El(nm, "", c, "", kids)
WithId(nm, i, kids) == El(nm, "", "", i, kids)

\* <dl><dt>label</dt><dd>...</dd></dl>
DL(label, ddKids) == E("dl", <<E("dt", <<Text(label)>>), E("dd", ddKids)>>)

\* The same with the icon the page puts after the label.
DLIcon(label, ddKids) ==
  E("dl", <<E("dt", <<Text(label), WithClass("span", "tuple__icon", <<>>)>>),
            E("dd", ddKids)>>)

Lemma ==
  WithClass("div", "lemma",
    <<E("h1", <<WithClass("span", "lemma__main",
                          <<Text(<<"Wo", SHY, "rt">>)>>)>>)>>)

TxtSonstwas == <<"sonstwas">>
TxtFeminin == <<"Substantiv", ",", " ", "feminin">>

\* The texts of a word-class field: the labels of the table, an unknown
\* one and a known one followed by a space.
WordLabels ==
  {WordTypeTable[i].label : i \in 1..Len(WordTypeTable)}
  \cup {TxtSonstwas, <<"Adjektiv", " ">>}

InfoNone == <<>>
InfoWith(label) == <<DLIcon(LblWortart, <<Text(label), Text(<<"\n">>)>>)>>

InfoVariants == {InfoNone} \cup {InfoWith(l) : l \in WordLabels}
InfoFew == {InfoNone, InfoWith(TxtFeminin), InfoWith(TxtSonstwas)}

\* The bar of the frequency field: a span with an aria-label.
Shaft(aria) == Node("span", "", "shaft", "", aria, <<>>, <<>>)

\* What the dd of a frequency field may hold: the bar with one of the five
\* sentences or another one, between line breaks or not, a span without
\* aria-label, a text, a line break only, nothing.
FreqContents ==
  {<<Text(<<"\n">>), Shaft(f), Text(<<"\n">>)>> :
     f \in {Freq100, Freq1000, Freq10000, Freq100000, FreqRare}}
  \cup {<<Shaft(FreqRare)>>,
        <<Shaft(<<"sonstwas">>)>>,
        <<E("span", <<>>)>>,
        <<Text(<<"selten">>)>>,
        <<Text(<<"\n">>)>>,
        <<>>}

InfoFreq(kids) == <<DLIcon(LblHaeufigkeit, kids)>>
FreqVariants ==
  {InfoFreq(k) : k \in FreqContents}
  \cup {InfoWith(TxtFeminin) \o InfoFreq(<<Shaft(Freq1000)>>)}

\* The headwords: every text of up to MaxText characters among a letter, a
\* space, the combining diaeresis and the three display characters.
TextChars == {"a", " ", CombUml, NBSP, NNBSP, SHY}
Headwords == UNION {[1..n -> TextChars] : n \in 0..MaxText}

LemmaOf(text) ==
  WithClass("div", "lemma",
    <<E("h1", <<WithClass("span", "lemma__main",
                          IF text = <<>> THEN <<>> ELSE <<Text(text)>>)>>)>>)

RechtDefault ==
  <<WithId("div", "rechtschreibung",
      <<DL(LblWorttrennung, <<Text(<<"Wo", "|", "rt">>)>>),
        DL(LblBeispiel \o <<"e">>,
           <<Text(<<"ein", " ", "Wort", ";", " ", "Worte">>)>>)>>)>>
RechtEmpty == <<WithId("div", "rechtschreibung", <<>>)>>
RechtAbsent == <<>>
RechtVariants == {RechtDefault, RechtEmpty, RechtAbsent}

\* What the dd of the example field of the spelling section may hold.
EC_Two == <<Text(<<"Er", " ", "ist", ";", " ", "Sie", " ", "ist">>)>>
EC_Blanks == <<Text(<<" ", "a", " ", "b", ";", NBSP, "c", " ", ";">>)>>
EC_Link ==
  <<Text(<<"vgl.", " ">>), El("a", "", "", "", <<Text(<<"Link">>)>>),
    Text(<<";", " ", "b">>)>>
EC_Wrapped ==
  <<E("span", <<E("i", <<Text(<<"a">>)>>)>>),
    El("a", "rule", "", "", <<Text(<<"R", " ", "1">>)>>),
    Text(<<";", " ", "b">>)>>
EC_Empty == <<>>
ExampleContents == {EC_Two, EC_Blanks, EC_Link, EC_Wrapped, EC_Empty}

\* What the dd of the hyphenation field may hold.
HC_Plain == <<Text(<<"Wo", "|", "rt">>)>>
HC_Display == <<Text(<<"Wo", SHY, "rt", NBSP, "e">>), Text(<<"x">>)>>
HC_Tag == <<E("span", <<Text(<<"Wo", "|", "rt">>)>>)>>
HC_Empty == <<>>
HyphContents == {HC_Plain, HC_Display, HC_Tag, HC_Empty}

\* The spelling section with the fields given (<<>> for a field left out).
Recht(hyph, ex) == <<WithId("div", "rechtschreibung", hyph \o ex)>>
HyphField(c) == <<DL(LblWorttrennung, c)>>
ExField(c) == <<DL(LblBeispiel \o <<"e">>, c)>>

RechtMore ==
  {Recht(HyphField(HC_Plain), ExField(c)) : c \in ExampleContents}
  \cup {Recht(HyphField(c), ExField(EC_Two)) : c \in HyphContents}
  \cup {Recht(HyphField(HC_Plain), <<>>), Recht(<<>>, ExField(EC_Two))}

TxtA == <<"Bedeutung", " ", "A">>
TxtB == <<"Bedeutung", " ", "B">>
TxtC == <<"Bedeutung", " ", "C">>

ExampleList ==
  DL(LblBeispiel \o <<"e">>,
     <<E("ul", <<E("li", <<Text(<<"ex1">>)>>),
                 E("li", <<E("span", <<Text(<<"ex", NBSP, "2">>)>>)>>)>>)>>)

\* A definition list whose label holds another definition list.
NestedList ==
  E("dl", <<E("dt", <<Text(LblBeispiel),
                      DL(<<"Innen">>, <<Text(<<"innen">>)>>)>>),
            E("dd", <<E("ul", <<E("li", <<Text(<<"ex3">>)>>)>>)>>)>>)

MC_P == <<E("p", <<Text(TxtA)>>)>>
MC_PEx == <<E("p", <<Text(TxtB)>>), ExampleList>>
MC_PSpan ==
  <<E("p", <<E("span", <<Text(<<"Art", " ">>)>>),
             El("a", "lexeme", "", "", <<Text(<<"V", " ", "(", "2", "a", ")">>)>>)>>)>>
MC_Empty == <<>>
MC_PEmpty == <<E("p", <<>>)>>
MC_PShy == <<E("p", <<Text(<<SHY>>)>>)>>
MC_Div == <<WithClass("div", "enumeration__text", <<Text(TxtC)>>)>>
MC_DivEx == <<WithClass("div", "enumeration__text", <<Text(TxtB)>>), ExampleList>>
MC_Nested == <<E("p", <<Text(TxtA)>>), NestedList>>
\* ... followed by a definition list that has no label.
MC_NoLabel == <<E("p", <<Text(TxtA)>>), E("dl", <<E("dd", <<Text(<<"x">>)>>)>>)>>

\* What a single-meaning container may hold.
SingleContents == {MC_P, MC_PEx, MC_PSpan, MC_Empty, MC_PEmpty, MC_PShy,
                   MC_Div, MC_Nested, MC_NoLabel}

\* What a list item of the multi-meaning container may hold.
ItemContents == {MC_Div, MC_DivEx, MC_Empty, MC_PEmpty}

IdOf(k) ==
  CASE k = 1 -> "Bedeutung-1" [] k = 2 -> "Bedeutung-2"
    [] k = 3 -> "Bedeutung-3" [] OTHER -> "Bedeutung-4"

\* The items of a list: item k holds cs[k] under the id of a meaning entry,
\* or is a list item of another kind when skip[k].
Items(cs, skip) ==
  [k \in 1..Len(cs) |->
     WithId("li", IF skip[k] THEN "Herkunft" ELSE IdOf(k), cs[k])]

ItemLists ==
  UNION {{Items(cs, sk) : cs \in [1..n -> ItemContents],
                          sk \in {[k \in 1..n |-> FALSE],
                                  [k \in 1..n |-> k = 1]}}
         : n \in 0..MaxItems}

Single(c) == WithId("div", "bedeutung", c)
Multi(items) == WithId("div", "bedeutungen", <<E("ol", items)>>)

MeaningVariants ==
  {<<>>}
  \cup {<<Single(c)>> : c \in SingleContents}
  \cup {<<Multi(items)>> : items \in ItemLists}
  \cup {<<WithId("div", "bedeutungen", <<>>)>>}
  \cup {<<Single(c), Multi(Items(<<MC_Div, MC_DivEx>>, <<FALSE, FALSE>>))>>
        : c \in {MC_P, MC_Empty}}

MeaningDefault == <<Single(MC_PEx)>>

Article(info, recht, meaning) ==
  E("article", <<Lemma>> \o info \o recht \o meaning)

ArticleOf(text) ==
  E("article", <<LemmaOf(text)>> \o InfoNone \o RechtDefault \o MeaningDefault)

Docs ==
  {Article(i, r, MeaningDefault) : i \in InfoVariants, r \in RechtVariants}
  \cup {Article(i, RechtDefault, m) : i \in InfoFew, m \in MeaningVariants}
  \cup {Article(i, RechtDefault, MeaningDefault) : i \in FreqVariants}
  \cup {Article(InfoNone, r, MeaningDefault) : r \in RechtMore}
  \cup {ArticleOf(t) : t \in Headwords}

---------------------------------------------------------------------------
(* clean_text as a state machine                                           *)

VARIABLES
  element,            \* the argument of clean_text
  preprocessors,      \* the rule list argument (or None)
  simple_element,     \* the current node sequence
  processed,          \* the loop flag
  pidx,               \* position of the for loop in preprocessors
  processed_elements, \* the outputs of the current rule, one per node
  pc,                 \* "call", "while", "apply", "collect", "done", "raised"
  result,             \* the returned string
  run,                \* 1: first call; 2: the call on the first call's result
  first               \* the string the first call returned

cleanVars == <<element, preprocessors, simple_element, processed, pidx,
               processed_elements, pc, result, run, first>>

VARIABLES
  soup,             \* the article of the fetched page
  entry,            \* the lookup called: "rechtschreibung" or "definition"
  lpc,              \* the position of the lookup
  wfp,              \* the outcome of _extract_dl(article)
  information_card, \* rechtschreibung(): the outcome of InformationCard.from_soup
  rechtschreib,     \* rechtschreibung(): the outcome of Rechtschreibung.from_soup
  single_div,       \* the result of the search for the single-meaning div
  multi_div,        \* the result of the search for the multi-meaning div
  meanings,         \* the outcome of Meaning.from_soup / Definition.parse_tag
  word,             \* definition(): the headword
  grammar,          \* definition(): the outcome of Grammar.parse_tag
  pronunciation,    \* definition(): the outcome of Pronunciation.parse_tag
  output            \* what the lookup handed to its caller

lookupVars == <<soup, entry, lpc, wfp, information_card, rechtschreib,
                single_div, multi_div, meanings, word, grammar,
                pronunciation, output>>

\* A variable that has not been assigned yet.
Unset == Node("#unset", "", "", "", <<>>, <<>>, <<>>)
Pending == [raised |-> FALSE, val |-> <<>>, pending |-> TRUE]

LookupIdle ==
  /\ soup = NoneNode
  /\ entry = "none"
  /\ lpc = "idle"
  /\ wfp = Pending
  /\ information_card = Pending
  /\ rechtschreib = Pending
  /\ single_div = Unset
  /\ multi_div = Unset
  /\ meanings = Pending
  /\ word = Pending
  /\ grammar = Pending
  /\ pronunciation = Pending
  /\ output = [kind |-> "running"]

CleanIdle ==
  /\ element = NoneNode
  /\ preprocessors = NoRules
  /\ simple_element = <<>>
  /\ processed = FALSE
  /\ pidx = 0
  /\ processed_elements = <<>>
  /\ pc = "idle"
  /\ result = <<>>
  /\ run = 0
  /\ first = <<>>

CleanInit ==
  /\ element \in InputNodes
  /\ preprocessors \in {NoRules} \cup {Rules(rs) : rs \in RuleLists}
  /\ simple_element = <<>>
  /\ processed = FALSE
  /\ pidx = 0
  /\ processed_elements = <<>>
  /\ pc = "call"
  /\ result = <<>>
  /\ run = 1
  /\ first = <<>>
  /\ LookupIdle

\* lines 127-132
Call ==
  /\ pc = "call"
  /\ IF ~preprocessors.given
     THEN /\ result' = Str(element)
          /\ pc' = "done"
          /\ UNCHANGED <<simple_element, processed>>
     ELSE /\ processed' = TRUE
          /\ simple_element' = <<element>>
          /\ pc' = "while"
          /\ UNCHANGED result
  /\ UNCHANGED <<element, preprocessors, pidx, processed_elements, run, first>>
  /\ UNCHANGED lookupVars

\* lines 133-135: the while test succeeds and a pass over the rules starts
WhileEnter ==
  /\ pc = "while"
  /\ processed
  /\ processed' = FALSE
  /\ pidx' = 1
  /\ pc' = IF Len(preprocessors.rules) = 0 THEN "while" ELSE "apply"
  /\ UNCHANGED <<element, preprocessors, simple_element, processed_elements,
                 result, run, first>>
  /\ UNCHANGED lookupVars

\* The rules applied with Tag.unwrap(): every tag of the sequence that a
\* rule replaces by its children is replaced by them in the tree as well.
Apply_unwrapping ==
  /\ pc = "apply"
  /\ LET pes == [i \in 1..Len(simple_element) |->
                   ApplyRule(preprocessors.rules[pidx], simple_element[i])]
         hit == {simple_element[i] : i \in
                   {j \in 1..Len(simple_element) :
                      /\ IsTag(simple_element[j])
                      /\ pes[j].consumed /\ ~pes[j].none}}
         RECURSIVE UnwrapIn(_)
         RECURSIVE UnwrapAll(_)
         UnwrapIn(tree) ==
           IF IsTag(tree) THEN [tree EXCEPT !.kids = UnwrapAll(tree.kids)]
           ELSE tree
         UnwrapAll(kids) ==
           IF kids = <<>> THEN <<>>
           ELSE (IF Head(kids) \in hit THEN Head(kids).kids
                 ELSE <<UnwrapIn(Head(kids))>>) \o UnwrapAll(Tail(kids))
     IN /\ processed_elements' = pes
        /\ element' = UnwrapIn(element)
        /\ pc' = IF AnyRaised(pes) THEN "raised" ELSE "collect"
  /\ UNCHANGED <<preprocessors, simple_element, processed, pidx,
                 result, run, first>>
  /\ UNCHANGED lookupVars

\* line 136: one rule applied to every node of the sequence
Apply ==
  /\ pc = "apply"
  /\ LET pes == [i \in 1..Len(simple_element) |->
                   ApplyRule(preprocessors.rules[pidx], simple_element[i])]
     IN /\ processed_elements' = pes
        /\ pc' = IF AnyRaised(pes) THEN "raised" ELSE "collect"
  /\ UNCHANGED <<element, preprocessors, simple_element, processed, pidx,
                 result, run, first>>
  /\ UNCHANGED lookupVars

\* lines 138-143
Collect ==
  /\ pc = "collect"
  /\ processed' = (processed \/ AnyConsumed(processed_elements))
  /\ simple_element' = Collected(processed_elements)
  /\ pidx' = pidx + 1
  /\ pc' = IF pidx = Len(preprocessors.rules) THEN "while" ELSE "apply"
  /\ UNCHANGED <<element, preprocessors, processed_elements, result, run, first>>
  /\ UNCHANGED lookupVars

\* lines 133, 145: the while test fails and the text is returned
Return ==
  /\ pc = "while"
  /\ ~processed
  /\ result' = JoinStr(simple_element)
  /\ pc' = "done"
  /\ UNCHANGED <<element, preprocessors, simple_element, processed, pidx,
                 processed_elements, run, first>>
  /\ UNCHANGED lookupVars

\* clean_text called again, with the same rules, on the text it returned
CleanAgain ==
  /\ pc = "done"
  /\ run = 1
  /\ preprocessors.given
  /\ element' = Text(result)
  /\ first' = result
  /\ run' = 2
  /\ pc' = "call"
  /\ simple_element' = <<>>
  /\ processed' = FALSE
  /\ pidx' = 0
  /\ processed_elements' = <<>>
  /\ result' = <<>>
  /\ UNCHANGED preprocessors
  /\ UNCHANGED lookupVars

Next == Call \/ WhileEnter \/ Apply \/ Collect \/ Return \/ CleanAgain

vars == <<cleanVars, lookupVars>>

Spec == CleanInit /\ [][Next]_vars

\* One call of clean_text, from its entry to its return or exception.
CallNext == Call \/ WhileEnter \/ Apply \/ Collect \/ Return
SpecCall == CleanInit /\ [][CallNext]_vars

---------------------------------------------------------------------------
(* The lookups rechtschreibung(query) and definition(word)                 *)

LookupInit ==
  /\ soup \in Docs
  /\ entry \in {"rechtschreibung", "definition"}
  /\ lpc = "fetch"
  /\ wfp = Pending
  /\ information_card = Pending
  /\ rechtschreib = Pending
  /\ single_div = Unset
  /\ multi_div = Unset
  /\ meanings = Pending
  /\ word = Pending
  /\ grammar = Pending
  /\ pronunciation = Pending
  /\ output = [kind |-> "running"]
  /\ CleanIdle

\* The lookup ends in an exception.
Raise ==
  /\ lpc' = "done"
  /\ output' = [kind |-> "raised"]

\* httpx.get and the status test (rechtschreibung.py 297-303,
\* definition.py 439-447): another status than 200 is a ValueError.
Fetch ==
  /\ lpc = "fetch"
  /\ \E status_code \in {200, 404} :
       IF status_code # 200
       THEN Raise
       ELSE /\ lpc' = IF entry = "rechtschreibung" THEN "info" ELSE "headword"
            /\ UNCHANGED output
  /\ UNCHANGED <<soup, entry, wfp, information_card, rechtschreib, single_div,
                 multi_div, meanings, word, grammar, pronunciation>>
  /\ UNCHANGED cleanVars

\* rechtschreibung.py 305: InformationCard.from_soup(soup)
InfoCard ==
  /\ lpc = "info"
  /\ wfp' = extract_dl(soup)
  /\ information_card' = InformationCard_from_soup(soup, wfp')
  /\ IF information_card'.raised THEN Raise
     ELSE lpc' = "recht" /\ UNCHANGED output
  /\ UNCHANGED <<soup, entry, rechtschreib, single_div, multi_div, meanings,
                 word, grammar, pronunciation>>
  /\ UNCHANGED cleanVars

\* rechtschreibung.py 306: Rechtschreibung.from_soup(soup)
Rechtschreib ==
  /\ lpc = "recht"
  /\ rechtschreib' = Rechtschreibung_from_soup(soup)
  /\ IF rechtschreib'.raised THEN Raise
     ELSE lpc' = "find_single" /\ UNCHANGED output
  /\ UNCHANGED <<soup, entry, wfp, information_card, single_div, multi_div,
                 meanings, word, grammar, pronunciation>>
  /\ UNCHANGED cleanVars

\* Meaning.from_soup, rechtschreibung.py 203
FindSingle ==
  /\ lpc = "find_single"
  /\ single_div' = find_by_id(soup, "div", "bedeutung")
  /\ lpc' = "test_single"
  /\ UNCHANGED <<soup, entry, wfp, information_card, rechtschreib, multi_div,
                 meanings, word, grammar, pronunciation, output>>
  /\ UNCHANGED cleanVars

\* Meaning.from_soup with the test of line 205 on the outcome of
\* from_single: an empty outcome goes on to the multi-meaning div.
FromSingleOrOn ==
  /\ lpc = "test_single"
  /\ ~IsNone(single_div)
  /\ \E m \in {from_single(single_div)} :
       /\ meanings' = IF ~m.raised /\ m.val.none THEN meanings ELSE m
       /\ IF m.raised THEN Raise
          ELSE /\ lpc' = IF m.val.none THEN "find_multi" ELSE "layout"
               /\ UNCHANGED output
  /\ UNCHANGED <<soup, entry, wfp, information_card, rechtschreib, single_div,
                 multi_div, word, grammar, pronunciation>>
  /\ UNCHANGED cleanVars

\* rechtschreibung.py 205-206
FromSingle ==
  /\ lpc = "test_single"
  /\ ~IsNone(single_div)
  /\ meanings' = from_single(single_div)
  /\ IF meanings'.raised THEN Raise
     ELSE lpc' = "layout" /\ UNCHANGED output
  /\ UNCHANGED <<soup, entry, wfp, information_card, rechtschreib, single_div,
                 multi_div, word, grammar, pronunciation>>
  /\ UNCHANGED cleanVars

\* rechtschreibung.py 205, 208
FindMulti ==
  /\ lpc \in {"test_single", "find_multi"}
  /\ lpc = "test_single" => IsNone(single_div)
  /\ multi_div' = find_by_id(soup, "div", "bedeutungen")
  /\ lpc' = "test_multi"
  /\ UNCHANGED <<soup, entry, wfp, information_card, rechtschreib, single_div,
                 meanings, word, grammar, pronunciation, output>>
  /\ UNCHANGED cleanVars

\* rechtschreibung.py 209-210
FromMany ==
  /\ lpc = "test_multi"
  /\ ~IsNone(multi_div)
  /\ meanings' = from_many(multi_div)
  /\ IF meanings'.raised THEN Raise
     ELSE lpc' = "layout" /\ UNCHANGED output
  /\ UNCHANGED <<soup, entry, wfp, information_card, rechtschreib, single_div,
                 multi_div, word, grammar, pronunciation>>
  /\ UNCHANGED cleanVars

\* rechtschreibung.py 209, 212
NoMeaning ==
  /\ lpc = "test_multi"
  /\ IsNone(multi_div)
  /\ meanings' = Ok(NoMeanings)
  /\ lpc' = "layout"
  /\ UNCHANGED <<soup, entry, wfp, information_card, rechtschreib, single_div,
                 multi_div, word, grammar, pronunciation, output>>
  /\ UNCHANGED cleanVars

\* rechtschreibung.py 309-318: the layout is built and returned
ReturnLayout ==
  /\ lpc = "layout"
  /\ output' = [kind |-> "layout",
                information_card |-> information_card.val,
                rechtschreibung |-> rechtschreib.val,
                meanings |-> meanings.val]
  /\ lpc' = "done"
  /\ UNCHANGED <<soup, entry, wfp, information_card, rechtschreib, single_div,
                 multi_div, meanings, word, grammar, pronunciation>>
  /\ UNCHANGED cleanVars

\* definition.py 449-453
GetHeadword ==
  /\ lpc = "headword"
  /\ word' = Headword(soup)
  /\ IF word'.raised THEN Raise
     ELSE lpc' = "grammar" /\ UNCHANGED output
  /\ UNCHANGED <<soup, entry, wfp, information_card, rechtschreib, single_div,
                 multi_div, meanings, grammar, pronunciation>>
  /\ UNCHANGED cleanVars

\* definition.py 457: Grammar.parse_tag(soup)
ParseGrammar ==
  /\ lpc = "grammar"
  /\ grammar' = Grammar_parse_tag(soup)
  /\ IF grammar'.raised THEN Raise
     ELSE lpc' = "def_find_single" /\ UNCHANGED output
  /\ UNCHANGED <<soup, entry, wfp, information_card, rechtschreib, single_div,
                 multi_div, meanings, word, pronunciation>>
  /\ UNCHANGED cleanVars

\* Definition.parse_tag, definition.py 275
DefFindSingle ==
  /\ lpc = "def_find_single"
  /\ single_div' = find_by_id(soup, "div", "bedeutung")
  /\ lpc' = "def_test_single"
  /\ UNCHANGED <<soup, entry, wfp, information_card, rechtschreib, multi_div,
                 meanings, word, grammar, pronunciation, output>>
  /\ UNCHANGED cleanVars

\* definition.py 276-277 (a Tag is true, whatever it holds)
DefSingle ==
  /\ lpc = "def_test_single"
  /\ ~IsNone(single_div)
  /\ meanings' = Definition_single_def(single_div)
  /\ IF meanings'.raised THEN Raise
     ELSE lpc' = "pronunciation" /\ UNCHANGED output
  /\ UNCHANGED <<soup, entry, wfp, information_card, rechtschreib, single_div,
                 multi_div, word, grammar, pronunciation>>
  /\ UNCHANGED cleanVars

\* definition.py 276, 279
DefFindMulti ==
  /\ lpc = "def_test_single"
  /\ IsNone(single_div)
  /\ multi_div' = find_by_id(soup, "div", "bedeutungen")
  /\ lpc' = "def_test_multi"
  /\ UNCHANGED <<soup, entry, wfp, information_card, rechtschreib, single_div,
                 meanings, word, grammar, pronunciation, output>>
  /\ UNCHANGED cleanVars

\* definition.py 281-282
DefMulti ==
  /\ lpc = "def_test_multi"
  /\ ~IsNone(multi_div)
  /\ meanings' = Definition_multi_def(multi_div)
  /\ IF meanings'.raised THEN Raise
     ELSE lpc' = "pronunciation" /\ UNCHANGED output
  /\ UNCHANGED <<soup, entry, wfp, information_card, rechtschreib, single_div,
                 multi_div, word, grammar, pronunciation>>
  /\ UNCHANGED cleanVars

\* definition.py 281, 284-285
DefNone ==
  /\ lpc = "def_test_multi"
  /\ IsNone(multi_div)
  /\ meanings' = Ok(NoDefinition)
  /\ lpc' = "pronunciation"
  /\ UNCHANGED <<soup, entry, wfp, information_card, rechtschreib, single_div,
                 multi_div, word, grammar, pronunciation, output>>
  /\ UNCHANGED cleanVars

\* definition.py 459: Pronunciation.parse_tag(soup)
ParsePronunciation ==
  /\ lpc = "pronunciation"
  /\ pronunciation' = Pronunciation_parse_tag(soup)
  /\ IF pronunciation'.raised THEN Raise
     ELSE lpc' = "word" /\ UNCHANGED output
  /\ UNCHANGED <<soup, entry, wfp, information_card, rechtschreib, single_div,
                 multi_div, meanings, word, grammar>>
  /\ UNCHANGED cleanVars

\* definition.py 461-471
ReturnWord ==
  /\ lpc = "word"
  /\ output' = IF meanings.val.none
               THEN [kind |-> "none"]
               ELSE [kind |-> "word",
                     word |-> word.val,
                     definition |-> meanings.val.definitions,
                     grammar |-> grammar.val,
                     pronunciation |-> pronunciation.val]
  /\ lpc' = "done"
  /\ UNCHANGED <<soup, entry, wfp, information_card, rechtschreib, single_div,
                 multi_div, meanings, word, grammar, pronunciation>>
  /\ UNCHANGED cleanVars

LookupNext ==
  \/ Fetch
  \/ InfoCard \/ Rechtschreib
  \/ FindSingle \/ FromSingle \/ FindMulti \/ FromMany \/ NoMeaning
  \/ ReturnLayout
  \/ GetHeadword \/ ParseGrammar
  \/ DefFindSingle \/ DefSingle \/ DefFindMulti \/ DefMulti \/ DefNone
  \/ ParsePronunciation \/ ReturnWord

SpecLookup == LookupInit /\ [][LookupNext]_vars

\* Both entry points: a call of clean_text or a lookup.
PipelineInit == CleanInit \/ LookupInit
PipelineNext == Next \/ LookupNext
SpecPipeline == PipelineInit /\ [][PipelineNext]_vars

---------------------------------------------------------------------------
(* Claims about clean_text and the stripping rules                         *)

\* C1: for any node and any list of rules, clean_text leaves its rewrite
\* loop by returning a string: no call ends in an exception.
C1_ReturnsString == pc # "raised"

\* Text leaves of a tree in document order, concatenated.
RECURSIVE LeafText(_)
LeafText(e) ==
  IF ~IsTag(e) THEN e.s
  ELSE Concat([i \in 1..Len(e.kids) |-> LeafText(e.kids[i])])

\* A tree built only from span and i wrappers around text leaves.
RECURSIVE IsWrapTree(_)
IsWrapTree(e) ==
  \/ ~IsTag(e)
  \/ /\ e.name \in {"span", "i"}
     /\ \A i \in 1..Len(e.kids) : IsWrapTree(e.kids[i])

\* C2: clean_text applied, with the same rules, to the text it returned
\* (as a text leaf) fires no rule and returns that same text.
C2_Idempotent ==
  run = 2 =>
    /\ pc # "raised"
    /\ \A i \in 1..Len(processed_elements) : ~processed_elements[i].consumed
    /\ (pc \in {"while", "apply", "collect"} => simple_element = <<Text(first)>>)
    /\ (pc = "done" => result = first)

C2_Witness ==
  /\ run = 2
  /\ pc = "done"
  /\ Len(preprocessors.rules) = MaxRules
  /\ first = TxtVerb \o TxtVerb
  /\ result = first

\* C3: on a tree of span and i wrappers around text leaves, clean_text with
\* [strip_span, strip_italic] returns the text leaves concatenated in
\* document order, and nothing else.
C3_UnwrapsToLeafText ==
  (/\ run = 1
   /\ preprocessors = Rules(<<"strip_span", "strip_italic">>)
   /\ IsWrapTree(element))
  => /\ pc # "raised"
     /\ (pc = "done" => result = LeafText(element))

C3_Witness ==
  /\ run = 1
  /\ pc = "done"
  /\ preprocessors = Rules(<<"strip_span", "strip_italic">>)
  /\ element = El("span", "", "", "",
                  <<Text(TxtVerb), El("i", "", "", "", <<Text(TxtVerb2a)>>)>>)
  /\ result = TxtVerb \o TxtVerb2a

\* " ".join(tokens)
RECURSIVE JoinSpace(_)
JoinSpace(toks) ==
  IF toks = <<>> THEN <<>>
  ELSE IF Len(toks) = 1 THEN toks[1]
  ELSE toks[1] \o <<" ">> \o JoinSpace(Tail(toks))

\* What C4 says strip_a_lexeme returns for an element carrying the marker.
LexemeClaimed(e) ==
  LET toks == Split(normalize_text(JoinStr(e.kids)))
  IN IF toks # <<>> /\ LexemePatternMatch(toks[Len(toks)])
     THEN Out(TRUE, <<Text(JoinSpace(SubSeq(toks, 1, Len(toks) - 1)))>>)
     ELSE Out(TRUE, e.kids)

HasToken(e) == Split(normalize_text(JoinStr(e.kids))) # <<>>

\* C4: strip_a_lexeme on an element carrying the lexeme marker (and holding
\* some text, so that a last token exists): a trailing parenthesized-number
\* token is dropped and the rest of the text kept as one text node;
\* otherwise the element is replaced by its children.
C4_LexemeRule ==
  (/\ pc \in {"collect", "raised"}
   /\ preprocessors.rules[pidx] = "strip_a_lexeme")
  => \A i \in 1..Len(simple_element) :
       (/\ IsTag(simple_element[i])
        /\ simple_element[i].ref = "lexeme"
        /\ HasToken(simple_element[i]))
       => processed_elements[i] = LexemeClaimed(simple_element[i])

---------------------------------------------------------------------------
(* Claims about the definition lists and the meaning parser                *)

\* A call of the lookup has returned or raised (the variable is no longer
\* waiting for it).
Settled(x) == "pending" \notin DOMAIN x

\* The first child of dl (not a deeper descendant) with the tag name nm.
OwnChild(dl, nm) == First(SelectSeq(dl.kids, LAMBDA x : x.name = nm))

\* The field of a list read from its own children.
OwnField(dl) ==
  [label |-> CleanJoin(OwnChild(dl, "dt").kids, DlRules).val,
   value |-> OwnChild(dl, "dd")]

\* A list with a label child and a value child of its own, whose label
\* cleans without an exception.
WellFormedList(dl) ==
  /\ ~IsNone(OwnChild(dl, "dt"))
  /\ ~IsNone(OwnChild(dl, "dd"))
  /\ ~CleanJoin(OwnChild(dl, "dt").kids, DlRules).raised

\* C5: _extract_dl on a container whose lists each have a dt and a dd child
\* returns one field per dl found anywhere inside it, in document order,
\* and each field pairs the cleaned text of the list's own dt child with
\* the list's own dd child.
C5_OwnChildren ==
  (/\ Settled(wfp)
   /\ \A i \in 1..Len(find_all(soup, "dl")) :
        WellFormedList(find_all(soup, "dl")[i]))
  => /\ ~wfp.raised
     /\ wfp.val = [i \in 1..Len(find_all(soup, "dl")) |->
                     OwnField(find_all(soup, "dl")[i])]

\* The outcome of the extraction from the single-meaning container.
SingleExtraction(div) ==
  IF entry = "rechtschreibung" THEN from_single(div)
  ELSE Definition_single_def(div)

\* C6: when the div with id bedeutung exists, the outcome of the parser is
\* the outcome of the single-meaning extraction, whatever it is, and the div
\* with id bedeutungen is never looked up; that div is looked up only when
\* the first is absent; when both are absent the parser yields no meanings.
C6_SelectionRule ==
  /\ ~IsNone(find_by_id(soup, "div", "bedeutung")) =>
       /\ multi_div = Unset
       /\ Settled(meanings) =>
            /\ single_div = find_by_id(soup, "div", "bedeutung")
            /\ meanings = SingleExtraction(single_div)
  /\ multi_div # Unset =>
       /\ IsNone(single_div)
       /\ multi_div = find_by_id(soup, "div", "bedeutungen")
  /\ (/\ IsNone(find_by_id(soup, "div", "bedeutung"))
      /\ IsNone(find_by_id(soup, "div", "bedeutungen"))
      /\ Settled(meanings))
     => ~meanings.raised /\ meanings.val.none

\* C6 witness: a page with both containers whose single-meaning container
\* yields nothing; the lookup has returned and never looked the other up.
C6_Witness ==
  /\ lpc = "done"
  /\ entry = "rechtschreibung"
  /\ ~IsNone(single_div) /\ single_div # Unset
  /\ ~IsNone(find_by_id(soup, "div", "bedeutungen"))
  /\ meanings = Ok(NoMeanings)
  /\ multi_div = Unset

\* The li items of the multi-meaning container with the id of a meaning
\* entry, in document order.
MeaningItems(div) ==
  SelectSeq(Descendants(find(div, "ol")),
            LAMBDA x : x.name = "li" /\ IdMatches(x.id))

\* The records of the items that yield a meaning text, in order.
RECURSIVE RecordsWithText(_)
RecordsWithText(lis) ==
  IF lis = <<>> THEN <<>>
  ELSE (IF from_single(Head(lis)).val.none
        THEN <<>>
        ELSE IF from_single(Head(lis)).val.list[1].meaning = <<>>
        THEN <<>>
        ELSE <<from_single(Head(lis)).val.list[1]>>)
       \o RecordsWithText(Tail(lis))

\* C7: from_many returns the records of the li items with a meaning id, in
\* document order, without the items that yield no meaning text, and "no
\* meanings" (None) when no record is left.
C7_ManyRecords ==
  (/\ entry = "rechtschreibung"
   /\ multi_div # Unset /\ ~IsNone(multi_div)
   /\ Settled(meanings) /\ ~meanings.raised)
  => meanings.val =
       IF RecordsWithText(MeaningItems(multi_div)) = <<>> THEN NoMeanings
       ELSE Meanings(RecordsWithText(MeaningItems(multi_div)))

\* C8: every record the meaning parser returns, from the single or the
\* multi layout, has a non-empty meaning string.
C8_NonEmptyMeaning ==
  (/\ entry = "rechtschreibung"
   /\ Settled(meanings) /\ ~meanings.raised /\ ~meanings.val.none)
  => \A i \in 1..Len(meanings.val.list) : meanings.val.list[i].meaning # <<>>

\* C9: a lookup whose meaning parser yielded "no meanings" hands no record
\* to its caller: it ends in an exception or returns None.
C9_NoMeaningsFails ==
  (/\ lpc = "done"
   /\ Settled(meanings) /\ ~meanings.raised /\ meanings.val.none)
  => output.kind \in {"raised", "none"}

\* The word-class field WordType.parse_tag selects: the string that is the
\* last child of the dd of the first list labelled Wortart, the line breaks
\* left out.  All the lists of the page are well formed.
WordClassLabels ==
  SelectSeq(find_all(soup, "dl"),
            LAMBDA dl : Contains(Str(OwnChild(dl, "dt").kids[1]), "Wortart"))

WordClassString ==
  LET kids == clean_contents(OwnChild(WordClassLabels[1], "dd"))
  IN kids[Len(kids)].s

HasWordClassString ==
  /\ \A i \in 1..Len(find_all(soup, "dl")) :
       /\ find(find_all(soup, "dl")[i], "dt") = OwnChild(find_all(soup, "dl")[i], "dt")
       /\ find(find_all(soup, "dl")[i], "dd") = OwnChild(find_all(soup, "dl")[i], "dd")
       /\ ~IsNone(OwnChild(find_all(soup, "dl")[i], "dt"))
       /\ OwnChild(find_all(soup, "dl")[i], "dt").kids # <<>>
  /\ WordClassLabels # <<>>
  /\ ~IsNone(OwnChild(WordClassLabels[1], "dd"))
  /\ clean_contents(OwnChild(WordClassLabels[1], "dd")) # <<>>
  /\ LET kids == clean_contents(OwnChild(WordClassLabels[1], "dd"))
     IN ~IsTag(kids[Len(kids)])

---------------------------------------------------------------------------
(* Claims about the failures of the field decoders                         *)

\* The page has a word-class string that is not a label of the table.
UnknownWordClass ==
  /\ HasWordClassString
  /\ \A i \in 1..Len(WordTypeTable) : WordTypeTable[i].label # WordClassString

\* C11: when definition() has decoded the word class of a page whose label
\* is not in the table and has ended, the other parts of the lookup
\* (headword, meanings, pronunciation) have been extracted all the same.
C11_OtherPartsExtracted ==
  (/\ entry = "definition" /\ lpc = "done"
   /\ UnknownWordClass /\ Settled(grammar))
  => /\ Settled(word)
     /\ Settled(meanings)
     /\ Settled(pronunciation)


\* The tier of an accessibility-label sentence: 5 for the most frequent
\* words down to 1, absent for any other sentence.
TierOf(sentence) ==
  IF sentence = Freq100 THEN Some(5)
  ELSE IF sentence = Freq1000 THEN Some(4)
  ELSE IF sentence = Freq10000 THEN Some(3)
  ELSE IF sentence = Freq100000 THEN Some(2)
  ELSE IF sentence = FreqRare THEN Some(1)
  ELSE NoneInt

\* The accessibility label of the first child of the field that is not a
\* line break; <<>> when there is no such child or it has no label.
FirstLabel(dd) ==
  IF clean_contents(dd) = <<>> THEN <<>> ELSE clean_contents(dd)[1].aria

\* C12: InformationCard.from_soup on a page with a frequency field ends in
\* a card, never in an exception, and the card's tier is the tier of the
\* field's sentence, absent for any other content of the field.
C12_FrequencyTotal ==
  (/\ entry = "rechtschreibung"
   /\ Settled(information_card)
   /\ ~wfp.raised
   /\ ~IsNone(FieldValue(wfp.val, LblHaeufigkeit)))
  => /\ ~information_card.raised
     /\ information_card.val.frequency =
          TierOf(FirstLabel(FieldValue(wfp.val, LblHaeufigkeit)))


---------------------------------------------------------------------------
(* Claims about the decoders of the spelling section                       *)

\* The spelling section and its fields, read from the page.
SpellingDiv == find_by_id(soup, "div", "rechtschreibung")
SpellingField(prefix) ==
  IF IsNone(SpellingDiv) \/ extract_dl(SpellingDiv).raised THEN NoneNode
  ELSE FieldValue(extract_dl(SpellingDiv).val, prefix)

\* The links among the descendants of a node that carry no reference
\* marker.
PlainLinks(e) ==
  SelectSeq(Descendants(e), LAMBDA x : x.name = "a" /\ x.ref = "")

\* C13: no string of the examples decoded from the example field holds the
\* markup or the text of a hyperlink of the field.
C13_NoHyperlink ==
  (/\ entry = "rechtschreibung"
   /\ Settled(rechtschreib) /\ ~rechtschreib.raised
   /\ rechtschreib.val.examples.has)
  => \A i \in 1..Len(rechtschreib.val.examples.v) :
       \A j \in 1..Len(rechtschreib.val.examples.v[i]) :
         /\ rechtschreib.val.examples.v[i][j] \notin {"<a", "</a>"}
         /\ \A k \in 1..Len(PlainLinks(SpellingField(LblBeispiel))) :
              ~Contains(GetText(PlainLinks(SpellingField(LblBeispiel))[k]),
                        rechtschreib.val.examples.v[i][j])


\* The positions of the separator in the text t, in order, with 0 before
\* and Len(t) + 1 behind them.
Cuts(t) ==
  <<0>> \o SelectSeq([i \in 1..Len(t) |-> i], LAMBDA i : t[i] = ";")
        \o <<Len(t) + 1>>

\* The text strictly between the positions lo and hi without the
\* whitespace at its two ends.
Trimmed(t, lo, hi) ==
  LET inner == {i \in (lo + 1)..(hi - 1) : ~IsSpace(t[i])}
  IN IF inner = {} THEN <<>>
     ELSE SubSeq(t, CHOOSE i \in inner : \A j \in inner : i <= j,
                    CHOOSE i \in inner : \A j \in inner : i >= j)

\* The segments of t between the separators, trimmed, in their order.
Segments(t) ==
  [k \in 1..(Len(Cuts(t)) - 1) |-> Trimmed(t, Cuts(t)[k], Cuts(t)[k + 1])]

C15_HyphenationNormalized ==
  (/\ entry = "rechtschreibung"
   /\ Settled(rechtschreib) /\ ~rechtschreib.raised
   /\ rechtschreib.val.hyphenation.has)
  => \A i \in 1..Len(rechtschreib.val.hyphenation.v) :
       rechtschreib.val.hyphenation.v[i] \notin {NBSP, NNBSP, SHY}


---------------------------------------------------------------------------
(* Claims about normalize_text                                             *)

\* The text of the headword of the page, the argument of normalize_text in
\* InformationCard.from_soup.
HeadwordText == GetText(find_by_class(soup, "span", "lemma__main"))

\* The positions of u that hold no soft hyphen, in order.
KeptPositions(u) == SelectSeq([i \in 1..Len(u) |-> i], LAMBDA i : u[i] # SHY)

\* u with every soft hyphen left out, each of the two no-break spaces
\* turned into a regular space and every other character kept, in order.
MapKept(u) ==
  [k \in 1..Len(KeptPositions(u)) |->
     IF u[KeptPositions(u)[k]] \in {NBSP, NNBSP} THEN " "
     ELSE u[KeptPositions(u)[k]]]

\* InformationCard.from_soup has run on a page whose field list was
\* extracted and has no frequency field: the headword went through
\* normalize_text and no other step of from_soup can fail.
NormalizeCalled ==
  /\ entry = "rechtschreibung"
  /\ Settled(information_card)
  /\ ~wfp.raised
  /\ IsNone(FieldValue(wfp.val, LblHaeufigkeit))

\* C16 as stated: normalize_text never fails and returns its argument with
\* the two no-break spaces replaced by a space, the soft hyphens deleted and
\* every other character kept in order.
C16_KeepsOtherCharacters ==
  NormalizeCalled
  => /\ ~information_card.raised
     /\ information_card.val.word = MapKept(HeadwordText)

\* C16 amended: normalize_text never fails, its result holds none of the
\* three display characters, and it is the canonical composition (NFC) of
\* the argument with the two no-break spaces replaced by a space, the soft
\* hyphens deleted and every other character of the composed text kept in
\* order.
C16_NormalizeComposed ==
  NormalizeCalled
  => /\ ~information_card.raised
     /\ \A i \in 1..Len(information_card.val.word) :
          information_card.val.word[i] \notin {NBSP, NNBSP, SHY}
     /\ information_card.val.word = MapKept(NFC(HeadwordText))

\* C16 witness: a headword with a decomposed umlaut and a non-breaking
\* space has been normalized.
C16_Witness ==
  /\ entry = "rechtschreibung"
  /\ Settled(information_card) /\ ~information_card.raised
  /\ HeadwordText = <<"a", CombUml, NBSP>>
  /\ information_card.val.word = <<"ä", " ">>


---------------------------------------------------------------------------
(* Claims about the source tree                                            *)

\* C17: no step of clean_text and no step of a lookup (the field
\* extraction, the field decoders, the meaning parser) changes the document
\* tree it reads: within one call the node given to clean_text keeps its
\* tag, attributes and ordered children, and so does the fetched article.
C17_TreeUnchanged ==
  [][/\ (run' = run => element' = element)
     /\ soup' = soup]_vars

\* C17 witness: clean_text has unwrapped a wrapper with two children, one of
\* them a wrapper itself, and its argument is still that tree.
C17_Witness ==
  /\ run = 1
  /\ pc = "done"
  /\ preprocessors = Rules(<<"strip_span", "strip_italic">>)
  /\ element = El("span", "", "", "",
                  <<Text(TxtVerb), El("i", "", "", "", <<Text(TxtBlank)>>)>>)
  /\ result = TxtVerb \o TxtBlank


---------------------------------------------------------------------------
(* Claims about the order of the rewriting                                 *)

\* The per-node rewriting of the specification: the outcome of the first
\* rule, in list order from rule k on, that consumes node e; the node
\* itself, not consumed, when no rule does.
RECURSIVE FirstMatch(_, _, _)
FirstMatch(rules, k, e) ==
  IF k > Len(rules) THEN Out(FALSE, <<e>>)
  ELSE IF ApplyRule(rules[k], e).raised \/ ApplyRule(rules[k], e).consumed
       THEN ApplyRule(rules[k], e)
       ELSE FirstMatch(rules, k + 1, e)

\* One pass of the reference procedure over the sequence.
RECURSIVE RefPass(_, _)
RefPass(rules, seq) ==
  IF seq = <<>> THEN <<>>
  ELSE <<FirstMatch(rules, 1, Head(seq))>> \o RefPass(rules, Tail(seq))

\* The passes of the reference procedure, repeated until none rewrites a
\* node; then the text of the sequence.
RECURSIVE RefLoop(_, _)
RefLoop(rules, seq) ==
  LET pes == RefPass(rules, seq)
  IN IF AnyRaised(pes) THEN Raised
     ELSE IF AnyConsumed(pes) THEN RefLoop(rules, Collected(pes))
     ELSE Ok(JoinStr(seq))

\* C18: whenever clean_text, called with a list of rules, returns, its text
\* is the text the per-node first-match procedure ends with on the same
\* node and rule list.
C18_FirstMatchRefinement ==
  (run = 1 /\ pc = "done" /\ preprocessors.given)
  => RefLoop(preprocessors.rules, <<element>>) = Ok(result)


\* The number of nodes of a tree, and of the trees of a sequence: every
\* node counted with all its descendants.
RECURSIVE TreeSize(_)
RECURSIVE SeqSize(_)
TreeSize(e) == 1 + SeqSize(e.kids)
SeqSize(seq) ==
  IF seq = <<>> THEN 0 ELSE TreeSize(Head(seq)) + SeqSize(Tail(seq))

\* C19 as stated: an application of a rule to the sequence (and so a pass)
\* leaves the sequence with at most as many nodes as it had.
C19_LengthNeverGrows ==
  [][pc = "collect" => Len(simple_element') <= Len(simple_element)]_vars

\* C19 amended: an application of a rule to the sequence (and so a pass)
\* leaves the trees of the sequence with at most as many nodes, descendants
\* counted, as they had; the sequence itself gets longer when a wrapper is
\* replaced by several children.
C19_SizeNeverGrows ==
  [][pc = "collect" => SeqSize(simple_element') <= SeqSize(simple_element)]_vars

\* C19 witness: a wrapper with two children has been replaced by them: the
\* sequence went from one node to two, and from four nodes to three with
\* the descendants counted.
C19_Witness ==
  /\ run = 1
  /\ pc = "apply"
  /\ pidx = 2
  /\ element = El("span", "", "", "",
                  <<Text(TxtVerb), El("i", "", "", "", <<Text(TxtVerb)>>)>>)
  /\ Len(processed_elements) = 1
  /\ simple_element = element.kids
  /\ SeqSize(simple_element) = 3
  /\ TreeSize(element) = 4


\* The orders in which the rules of a list can be listed.
Orders(rules) ==
  {[i \in 1..Len(rules) |-> rules[p[i]]] :
     p \in {q \in [1..Len(rules) -> 1..Len(rules)] :
              \A i, j \in 1..Len(rules) : q[i] = q[j] => i = j}}

\* A set of rules is represented by the list that names them in the order
\* of their definitions in the module.
RuleRank(r) ==
  CASE r = "strip_span" -> 1
    [] r = "strip_italic" -> 2
    [] r = "delete_a_pattern" -> 3
    [] r = "delete_any_a" -> 4
    [] r = "delete_a_rule" -> 5
    [] r = "delete_a_icon" -> 6
    [] r = "strip_a_lexeme" -> 7

InModuleOrder(rules) ==
  \A i \in 1..Len(rules) - 1 : RuleRank(rules[i]) <= RuleRank(rules[i + 1])

\* What the call of clean_text in the state has ended with.
CleanOutcome == IF pc = "raised" THEN Raised ELSE Ok(result)

\* C20 as stated: for any node and any set of rules, clean_text returns
\* the same text whatever the order in which the rules are listed (orders
\* under which the call ends in an exception returning no text).
C20_Confluent ==
  (/\ run = 1 /\ pc = "done" /\ preprocessors.given
   /\ InModuleOrder(preprocessors.rules))
  => \A rs \in Orders(preprocessors.rules) :
       \/ clean_text(element, Rules(rs)).raised
       \/ clean_text(element, Rules(rs)) = Ok(result)

\* Rule r rewrites node n or fails on it.
Fires(r, n) == ApplyRule(r, n).consumed \/ ApplyRule(r, n).raised

\* The nodes of a tree.
RECURSIVE TreeNodes(_)
RECURSIVE SeqNodes(_)
TreeNodes(e) == {e} \cup SeqNodes(e.kids)
SeqNodes(seq) ==
  IF seq = <<>> THEN {} ELSE TreeNodes(Head(seq)) \cup SeqNodes(Tail(seq))

\* Two of the rules treat some node of the tree differently: both fire on
\* it, with different outcomes.
RulesOverlap(rules, e) ==
  \E n \in TreeNodes(e) : \E i, j \in 1..Len(rules) :
    /\ Fires(rules[i], n) /\ Fires(rules[j], n)
    /\ ApplyRule(rules[i], n) # ApplyRule(rules[j], n)

\* C20 amended: for any node and any set of rules of which no two rewrite
\* a node of the tree differently, clean_text ends the same way (the same
\* text, or an exception) whatever the order in which the rules are listed.
C20_ConfluentApart ==
  (/\ run = 1 /\ pc \in {"done", "raised"} /\ preprocessors.given
   /\ InModuleOrder(preprocessors.rules)
   /\ ~RulesOverlap(preprocessors.rules, element))
  => \A rs \in Orders(preprocessors.rules) :
       clean_text(element, Rules(rs)) = CleanOutcome

\* C20 witness: an italic wrapper inside a style wrapper has been cleaned
\* to the same text with the two rules in either order, the second of
\* which needs a further pass.
C20_Witness ==
  /\ run = 1
  /\ pc = "done"
  /\ preprocessors = Rules(<<"strip_span", "strip_italic">>)
  /\ element = El("span", "", "", "",
                  <<El("i", "", "", "", <<Text(TxtVerb2a)>>)>>)
  /\ ~RulesOverlap(preprocessors.rules, element)
  /\ result = TxtVerb2a
  /\ clean_text(element, Rules(<<"strip_italic", "strip_span">>)) = Ok(result)


---------------------------------------------------------------------------
(* Claims about the totality of the rules                                  *)

\* The outcome a rule may have on node e: consumed, with a replacement or a
\* deletion, or not consumed, with the node itself as the only output; no
\* exception.
WholeOutcome(o, e) ==
  /\ ~o.raised
  /\ \/ o.consumed
     \/ /\ ~o.none
        /\ o.out = <<e>>

\* C21: whenever a rule has been applied to the nodes of the sequence, its
\* outcome on each of them (text leaves, elements, elements without
\* children or with blank text) is consumed with a replacement or deletion,
\* or not consumed with the node itself; none is an exception.
C21_RulesTotal ==
  (pc \in {"collect", "raised"})
  => /\ Len(processed_elements) = Len(simple_element)
     /\ \A i \in 1..Len(simple_element) :
          WholeOutcome(processed_elements[i], simple_element[i])


=============================================================================
